---- MODULE Spec2Model ----
(***************************************************************************)
(* mdbsql: a Connection that serialises access to one libmdbsql session    *)
(* (src/src/mdbsql.rs) and the table export of the migration path          *)
(* (src/src/ffi.rs).                                                       *)
(*                                                                         *)
(* Texts (column names, cell values, engine messages) are sequences of     *)
(* one-character strings, so that trimming and parsing are computed.       *)
(* Pointers into engine memory are addresses of the heap `mem`.            *)
(***************************************************************************)
EXTENDS Integers, Sequences, FiniteSets, TLC

\* ------------------------------------------------------------------ bounds
\* Number of threads that share the Connection.
NumThreads == 2
\* Largest number of result columns the session accumulates: a Cursor is
\* only abandoned while the next query still fits.
MaxCols == 2

Threads == 1..NumThreads
NoThread == 0

\* ------------------------------------------------------- the database file
\* The fixture the tests query: Table1 with ID = 1, 2 and E = 1, 0.  The
\* engine hands every value out as text; one value carries padding.
ColID == <<"I", "D">>
ColE == <<"E">>
Table1 == <<"T", "1">>
NoTable == <<"N", "o">>

TableEmpty == <<"T", "0">>
TableBlob == <<"T", "B">>

\* The tables of the file: Table1, a table without rows, and a table with a
\* large-binary (OLE) column.
KnownTables == {Table1, TableEmpty, TableBlob}

ColO == <<"O">>
ColA == <<"A">>

TableCols(name) ==
  IF name = Table1 THEN <<ColID, ColE, ColA>>
  ELSE IF name = TableEmpty THEN <<ColID>>
  ELSE IF name = TableBlob THEN <<ColID, ColO>>
  ELSE <<>>

ColType(name, i) ==
  IF name = TableBlob /\ i = 2 THEN "MDB_OLE"
  ELSE IF name = Table1 /\ i = 3 THEN "MDB_TEXT"
  ELSE "MDB_LONGINT"

TableRows(name) ==
  IF name = Table1
    THEN << <<(<<"1">>), (<<"1", " ">>), (<<"F">>)>>,
            <<(<<"2">>), (<<"0">>), (<<"G">>)>> >>
  ELSE IF name = TableBlob
    THEN << <<(<<"1">>), (<<"b">>)>> >>
  ELSE <<>>

\* Queries: `select <cols> from <table>`; nul marks a query text with an
\* embedded nul byte.
QueryID == [cols |-> <<ColID>>, table |-> Table1, nul |-> FALSE]
QueryE == [cols |-> <<ColE>>, table |-> Table1, nul |-> FALSE]
QueryBad == [cols |-> <<ColID>>, table |-> NoTable, nul |-> FALSE]
QueryNul == [cols |-> <<ColID>>, table |-> Table1, nul |-> TRUE]
Queries == {QueryID, QueryE, QueryBad, QueryNul}
NoQuery == [cols |-> <<>>, table |-> <<>>, nul |-> FALSE]

\* ------------------------------------------------------------ text helpers
RECURSIVE TrimStart(_)
TrimStart(s) ==
  IF s # <<>> /\ Head(s) = " " THEN TrimStart(Tail(s)) ELSE s

RECURSIVE TrimEnd(_)
TrimEnd(s) ==
  IF s # <<>> /\ s[Len(s)] = " " THEN TrimEnd(SubSeq(s, 1, Len(s) - 1)) ELSE s

\* str::trim
Trim(s) == TrimEnd(TrimStart(s))

\* cstr_to_string: the C string, trimmed.
cstr_to_string(s) == Trim(s)

DigitValue(c) ==
  CASE c = "0" -> 0 [] c = "1" -> 1 [] c = "2" -> 2 [] c = "3" -> 3
    [] c = "4" -> 4 [] c = "5" -> 5 [] c = "6" -> 6 [] c = "7" -> 7
    [] c = "8" -> 8 [] c = "9" -> 9 [] OTHER -> -1

RECURSIVE ParseNat(_, _)
ParseNat(s, acc) ==
  IF s = <<>> THEN acc
  ELSE IF DigitValue(Head(s)) < 0 THEN -1
  ELSE ParseNat(Tail(s), acc * 10 + DigitValue(Head(s)))

\* FromSql::column_result for an unsigned integer target: trim, then parse.
column_result(text) ==
  LET t == Trim(text)
      n == IF t = <<>> THEN -1 ELSE ParseNat(t, 0)
  IN IF n < 0 THEN [kind |-> "FromSqlError", val |-> 0]
     ELSE [kind |-> "Ok", val |-> n]

\* ------------------------------------------------------------------ state
VARIABLES
  db,        \* the MdbSQL session behind Mdb(*mut MdbSQL)
  mem,       \* engine heap: the buffers bound_values points into
  holder,    \* Mutex<Mdb>: the thread that owns the MutexGuard, or NoThread
  poisoned,  \* Mutex<Mdb>: the poison flag
  pc,        \* per thread: where it is in prepare / with its Rows
  query,     \* per thread: the query text passed to prepare
  result,    \* per thread: what its last prepare returned
  stale,     \* per thread: its query was submitted to a session not reset
  names,     \* per thread: Rows.names of its live Rows
  got,       \* per thread: the rows it decoded, each right after next()
  exhausted, \* per thread: its Rows has returned None
  row,       \* per thread: the last Row it was handed (Row.values)
  yielded,   \* per thread: what that Row decoded to when it was yielded
  lastGet,   \* what the most recent Row::get call returned
  aborted,   \* the process was ended by a memory fault
  ex,        \* the export call in progress on the ffi::Mdb of the migration
  conn,      \* the Connection: its life, and the engine's open/init/exit calls
  dest       \* the SQLite database open_mdb fills

vars ==
  <<db, mem, holder, poisoned, pc, query, result, stale, names, got, exhausted,
    row, yielded, lastGet, aborted, ex, conn, dest>>

\* ------------------------------------------------------------ engine heap
\* One buffer per accumulated column and generation of binding.
Addr == 1..((MaxCols * (MaxCols + 1)) \div 2)

FreshCell == [live |-> FALSE, text |-> <<>>]

FreeAddrs(m) == {a \in Addr : ~m[a].live}

RECURSIVE LowestN(_, _)
LowestN(S, n) ==
  IF n = 0 \/ S = {} THEN <<>>
  ELSE LET a == CHOOSE x \in S : \A y \in S : x <= y
       IN <<a>> \o LowestN(S \ {a}, n - 1)

\* g_malloc0 of n buffers: the allocator hands out the lowest free addresses,
\* so a buffer freed by a reset is reused by the next query.
AllocBuffers(m, n) == LowestN(FreeAddrs(m), n)

SeqRange(s) == {s[i] : i \in 1..Len(s)}

\* ----------------------------------------------------- the engine session
\* What the calls of libmdbsql made by the wrapper do to the session.
NoEngineError == <<>>
NotATable(name) == name \o <<" ", "?", " ">>
ColumnNotFound(name) == name \o <<" ", "!", " ">>

CleanSession ==
  [error_msg |-> NoEngineError, tables |-> <<>>, columns |-> <<>>,
   bound_values |-> <<>>, cur_table |-> <<>>, pos |-> 0, bind |-> <<>>]

\* The query state of the session is the state mdb_sql_reset leaves.
IsReset(d) ==
  /\ d.tables = <<>>
  /\ d.columns = <<>>
  /\ d.bound_values = <<>>
  /\ d.cur_table = <<>>

\* mdb_sql_reset: drops the current table, frees the bound values, empties
\* the column and table lists; the error slot is left alone.
mdb_sql_reset(d, m) ==
  [db |-> [CleanSession EXCEPT !.error_msg = d.error_msg],
   mem |-> [a \in Addr |->
              IF a \in SeqRange(d.bound_values)
                THEN FreshCell ELSE m[a]]]

\* The buffer a table column is bound to: the last accumulated result column
\* of that name wins; 0 when the column is not selected.
BindOf(cols, bufs, c) ==
  LET js == {j \in 1..Len(cols) : cols[j] = c}
  IN IF js = {} THEN 0
     ELSE bufs[CHOOSE j \in js : \A k \in js : k <= j]

\* mdb_sql_run_query: clears the error slot, ADDS the parsed table and
\* columns to the session's lists, selects on the first table of the list,
\* and binds one fresh buffer per accumulated column.  A failure writes the
\* error slot; the engine may or may not have reset the session by then, so
\* the call has a set of outcomes.
mdb_sql_run_query(d, m, q) ==
  LET tabs == Append(d.tables, q.table)
      cols == d.columns \o q.cols
      d1 == [d EXCEPT !.error_msg = NoEngineError, !.tables = tabs,
                      !.columns = cols]
      tname == tabs[1]
      tcols == TableCols(tname)
      bad == {j \in 1..Len(cols) : cols[j] \notin SeqRange(tcols)}
      bufs == AllocBuffers(m, Len(cols))
      msg == IF tname \notin KnownTables
               THEN NotATable(tname)
               ELSE ColumnNotFound(cols[CHOOSE j \in bad : \A k \in bad : j <= k])
      failed == [d1 EXCEPT !.error_msg = msg]
  IN IF tname \notin KnownTables \/ bad # {}
       THEN {mdb_sql_reset(failed, m), [db |-> failed, mem |-> m]}
       ELSE {[db |-> [d1 EXCEPT !.bound_values = d.bound_values \o bufs,
                               !.cur_table = tname,
                               !.pos = 0,
                               !.bind = [i \in 1..Len(tcols) |->
                                           BindOf(cols, bufs, tcols[i])]],
              mem |-> [a \in Addr |->
                         IF a \in SeqRange(bufs)
                           THEN [live |-> TRUE, text |-> <<>>] ELSE m[a]]]}

\* The rows the engine still has to fetch for the current table.
HasRow(d) == d.cur_table # <<>> /\ d.pos < Len(TableRows(d.cur_table))

\* mdb_sql_fetch_row returning 1: the next row of the current table is
\* written in place into the buffers its columns are bound to.
mdb_sql_fetch_row(d, m) ==
  LET r == TableRows(d.cur_table)[d.pos + 1]
  IN [db |-> [d EXCEPT !.pos = d.pos + 1],
      mem |-> [a \in Addr |->
                 IF \E i \in 1..Len(d.bind) : d.bind[i] = a
                   THEN [live |-> TRUE,
                         text |-> r[CHOOSE i \in 1..Len(d.bind) : d.bind[i] = a]]
                   ELSE m[a]]]

\* ------------------------------------------------------------------- Row
\* Reading the C string behind a pointer of a Row.  Reading a buffer that the
\* engine has freed is undefined: it shows whatever bytes are there now
\* (Garbage stands for them) or faults.
Garbage == <<"9", "x">>

ReadCStr(m, a) ==
  IF m[a].live
    THEN {[fault |-> FALSE, text |-> m[a].text]}
    ELSE {[fault |-> FALSE, text |-> Garbage], [fault |-> TRUE, text |-> <<>>]}

\* Row::get(idx): the outcomes of one call, idx counted from 0.
RowGetOutcomes(values, idx, m) ==
  IF idx <= Len(values)
    THEN IF idx < Len(values)
           THEN {IF r.fault THEN [kind |-> "Segv", val |-> 0]
                           ELSE column_result(r.text) :
                 r \in ReadCStr(m, values[idx + 1])}
           ELSE {[kind |-> "Panic", val |-> idx]}
    ELSE {[kind |-> "InvalidRowIndex", val |-> idx]}

\* The indices a caller passes to Row::get.
Idx == 0..(MaxCols + 1)

NoRow == <<>>
NoGet ==
  [thread |-> NoThread, idx |-> 0, len |-> 0, kind |-> "None", val |-> 0,
   orig |-> [kind |-> "None", val |-> 0]]
NoResult == [kind |-> "None", msg |-> <<>>]

RECURSIVE MaxLen(_)
MaxLen(S) ==
  IF S = {} THEN 0
  ELSE LET q == CHOOSE x \in S : TRUE
           n == MaxLen(S \ {q})
       IN IF Len(q.cols) > n THEN Len(q.cols) ELSE n

MaxQueryCols == MaxLen(Queries)

\* ------------------------------------------------------- ffi::Mdb export
\* The bytes that may follow a Rust str in memory: table_name.as_ptr() is
\* handed to the engine as a C string, and a str carries no terminating nul,
\* so the engine reads on until it meets one.
Tails == {<<>>, <<"1">>}

\* A name that is the beginning of a table's name and no table's name.
TablePrefix == <<"T">>

\* The names export and schema are called with.
ExportNames == KnownTables \cup {NoTable, TablePrefix}

\* What reading an i32 through the null length pointer of a large-binary
\* column can do: fault, or hand back whatever is read as the length.
NullReads ==
  {[fault |-> TRUE, len |-> 0], [fault |-> FALSE, len |-> 0],
   [fault |-> FALSE, len |-> 1]}

NoReturn == [kind |-> "None", text |-> <<>>]

\* What a call allocates outside Rust's ownership: the buffer of its memory
\* stream (open_memstream) and the value mdb_ole_read_full returns.
StreamBuf == "stream buffer"
OleValue == "large-binary value"

NoExport ==
  [pc |-> "idle", name |-> <<>>, seen |-> <<>>, table |-> <<>>, i |-> 1,
   bound |-> <<>>,
   slot |-> 0, stream |-> "none", out |-> <<>>, pos |-> 0,
   ret |-> NoReturn, ddl |-> NoReturn, heap |-> {}]

\* The backquote character, the identifier quote of the sqlite backend.
BQuote == "bquote"

\* quote_schema_name of the sqlite backend.
QuoteSchemaName(name) == <<BQuote>> \o name \o <<BQuote>>

\* mdb_normalise_and_replace: the name in normal form; the names of the file
\* are plain ASCII, which is in normal form already.
Normalise(name) == name

\* The closure `quote` of export: quote, then normalise.
QuoteName(name) == Normalise(QuoteSchemaName(name))

\* The double-quote character, passed to mdb_print_col as quote_char.
DQuote == "dquote"

\* mdb_print_col with quote_text = 1 and the quote character DQuote: text is
\* quoted and read up to its nul, binary types are cut at the length passed.
PrintCol(type, value, length) ==
  IF type = "MDB_TEXT" THEN <<DQuote>> \o value \o <<DQuote>>
  ELSE IF type = "MDB_OLE" THEN SubSeq(value, 1, length)
  ELSE value

\* mdb_print_schema: the DDL of the table of that name, nothing for a name
\* the catalogue does not hold.
PrintSchema(seen) ==
  IF seen \in KnownTables
    THEN [table |-> QuoteSchemaName(seen),
          cols |-> [i \in 1..Len(TableCols(seen)) |->
                      QuoteSchemaName(TableCols(seen)[i])]]
    ELSE [table |-> <<>>, cols |-> <<>>]

\* The INSERT statement export writes for the row r just fetched: the quoted
\* table name, each column name normalised, and each value printed, a
\* large-binary value read in full with the length olen, any other from its
\* bound buffer with the length of its entry of bound_values.
InsertStatement(tname, r, bound, olen) ==
  [table |-> QuoteName(tname),
   cols |-> [i \in 1..Len(TableCols(tname)) |-> Normalise(TableCols(tname)[i])],
   vals |-> [i \in 1..Len(TableCols(tname)) |->
               IF ColType(tname, i) = "MDB_OLE"
                 THEN PrintCol("MDB_OLE", r[i], olen)
                 ELSE PrintCol(ColType(tname, i), bound[i].buf, bound[i].len)],
   closed |-> TRUE]

\* The first large-binary column of a table, 0 if it has none.
FirstOle(tname) ==
  LET os == {i \in 1..Len(TableCols(tname)) : ColType(tname, i) = "MDB_OLE"}
  IN IF os = {} THEN 0 ELSE CHOOSE i \in os : \A j \in os : i <= j

\* ----------------------------------------------------------------- Init
\* Connection::open_in_memory: a database with no table; no schema or
\* export of the source has been run on it, open_mdb has not returned.
NoDest ==
  [created |-> {}, rows |-> [tb \in KnownTables |-> <<>>],
   schemas |-> {}, exported |-> {}, ret |-> "None"]

\* What open is given: a valid mdb file, a regular file the engine does not
\* recognise, a directory, a path that names nothing.
PathKinds == {"mdb", "other", "dir", "missing"}

\* Path::is_file.
IsFile(kind) == kind \in {"mdb", "other"}

\* No Connection yet: no engine call has been made.
NoConnection ==
  [state |-> "none", path |-> "none", err |-> "None",
   opens |-> 0, inits |-> 0, exits |-> 0]

\* Mdb::open(path), as Connection::open wraps it in the Mutex: a path that
\* is not a regular file returns InvalidPath at once; else mdb_open is
\* called, a null handle returns InvalidMdbFile, any other is put into the
\* session that mdb_sql_init creates.
OpenResult(kind) ==
  IF ~IsFile(kind)
    THEN [NoConnection EXCEPT !.state = "failed", !.path = kind,
                              !.err = "InvalidPath"]
  ELSE IF kind # "mdb"
    THEN [NoConnection EXCEPT !.state = "failed", !.path = kind,
                              !.err = "InvalidMdbFile", !.opens = 1]
  ELSE [NoConnection EXCEPT !.state = "open", !.path = kind,
                            !.opens = 1, !.inits = 1]

\* The session before any query.
InitSession ==
  /\ db = CleanSession
  /\ mem = [a \in Addr |-> FreshCell]
  /\ holder = NoThread
  /\ poisoned = FALSE
  /\ pc = [t \in Threads |-> "idle"]
  /\ query = [t \in Threads |-> NoQuery]
  /\ result = [t \in Threads |-> NoResult]
  /\ stale = [t \in Threads |-> FALSE]
  /\ names = [t \in Threads |-> <<>>]
  /\ got = [t \in Threads |-> <<>>]
  /\ exhausted = [t \in Threads |-> FALSE]
  /\ row = [t \in Threads |-> NoRow]
  /\ yielded = [t \in Threads |-> <<>>]
  /\ lastGet = NoGet
  /\ aborted = FALSE
  /\ ex = NoExport
  /\ dest = NoDest

\* After Connection::open of the file.
Init ==
  /\ InitSession
  /\ conn = OpenResult("mdb")

\* Before Connection::open.
InitOpen ==
  /\ InitSession
  /\ conn = NoConnection

\* ------------------------------------------------- Connection::prepare
\* A thread calls prepare(q): it reaches self.db.lock().
Prepare(t, q) ==
  /\ ~aborted
  /\ pc[t] = "idle"
  /\ pc' = [pc EXCEPT ![t] = "lock"]
  /\ query' = [query EXCEPT ![t] = q]
  /\ result' = [result EXCEPT ![t] = NoResult]
  /\ UNCHANGED <<stale, db, mem, holder, poisoned, names, got, exhausted, row,
                 yielded, lastGet, aborted>>
  /\ UNCHANGED <<ex, conn, dest>>

\* A faulty variant: a lock that does not wait for the owner of the guard.
LockNoWait(t) ==
  /\ ~aborted
  /\ pc[t] = "lock"
  /\ holder' = t
  /\ pc' = [pc EXCEPT ![t] = IF poisoned THEN "poisoned" ELSE "locked"]
  /\ UNCHANGED <<stale, db, mem, poisoned, query, result, names, got, exhausted,
                 row, yielded, lastGet, aborted>>
  /\ UNCHANGED <<ex, conn, dest>>

\* A faulty variant: a lock that takes the guard out of a PoisonError and goes on.
LockIgnoresPoison(t) ==
  /\ ~aborted
  /\ pc[t] = "lock"
  /\ holder = NoThread
  /\ holder' = t
  /\ pc' = [pc EXCEPT ![t] = "locked"]
  /\ UNCHANGED <<stale, db, mem, poisoned, query, result, names, got, exhausted,
                 row, yielded, lastGet, aborted>>
  /\ UNCHANGED <<ex, conn, dest>>

\* Mutex::lock returns: the guard, or the guard inside a PoisonError.
Lock(t) ==
  /\ ~aborted
  /\ pc[t] = "lock"
  /\ holder = NoThread
  /\ holder' = t
  /\ pc' = [pc EXCEPT ![t] = IF poisoned THEN "poisoned" ELSE "locked"]
  /\ UNCHANGED <<stale, db, mem, poisoned, query, result, names, got, exhausted,
                 row, yielded,
                 lastGet, aborted>>
  /\ UNCHANGED <<ex, conn, dest>>

\* `?` on the PoisonError: From<PoisonError> builds MutexPoisonError and the
\* guard inside the error is dropped.
PoisonReturn(t) ==
  /\ ~aborted
  /\ pc[t] = "poisoned"
  /\ holder' = NoThread
  /\ pc' = [pc EXCEPT ![t] = "idle"]
  /\ result' = [result EXCEPT ![t] = [kind |-> "MutexPoisonError", msg |-> <<>>]]
  /\ query' = [query EXCEPT ![t] = NoQuery]
  /\ UNCHANGED <<stale, db, mem, poisoned, names, got, exhausted, row,
                 yielded, lastGet, aborted>>
  /\ UNCHANGED <<ex, conn, dest>>

\* A faulty variant: a run_query that hands the text to the engine before it
\* finds the nul, and returns NulError after.
RunQuerySubmitsFirst(t) ==
  /\ ~aborted
  /\ pc[t] = "locked"
  /\ \E e \in mdb_sql_run_query(db, mem, query[t]) :
       /\ db' = e.db
       /\ mem' = e.mem
       /\ IF query[t].nul
            THEN /\ holder' = NoThread
                 /\ pc' = [pc EXCEPT ![t] = "idle"]
                 /\ result' = [result EXCEPT
                                 ![t] = [kind |-> "NulError", msg |-> <<>>]]
                 /\ query' = [query EXCEPT ![t] = NoQuery]
                 /\ UNCHANGED stale
            ELSE /\ pc' = [pc EXCEPT ![t] = "ran"]
                 /\ stale' = [stale EXCEPT ![t] = ~IsReset(db)]
                 /\ UNCHANGED <<holder, result, query>>
  /\ UNCHANGED <<poisoned, names, got, exhausted, row, yielded, lastGet, aborted>>
  /\ UNCHANGED <<ex, conn, dest>>

\* run_query: CString::new fails on an embedded nul and the guard is dropped;
\* otherwise the query is submitted to the engine.
RunQuery(t) ==
  /\ ~aborted
  /\ pc[t] = "locked"
  /\ IF query[t].nul
       THEN /\ holder' = NoThread
            /\ pc' = [pc EXCEPT ![t] = "idle"]
            /\ result' = [result EXCEPT ![t] = [kind |-> "NulError", msg |-> <<>>]]
            /\ query' = [query EXCEPT ![t] = NoQuery]
            /\ UNCHANGED <<db, mem, stale>>
       ELSE \E e \in mdb_sql_run_query(db, mem, query[t]) :
               /\ db' = e.db
               /\ mem' = e.mem
               /\ pc' = [pc EXCEPT ![t] = "ran"]
               /\ stale' = [stale EXCEPT ![t] = ~IsReset(db)]
               /\ UNCHANGED <<holder, result, query>>
  /\ UNCHANGED <<poisoned, names, got, exhausted, row, yielded, lastGet, aborted>>
  /\ UNCHANGED <<ex, conn, dest>>

\* A faulty variant: check_error that returns the engine's message without resetting.
CheckErrorNoReset(t) ==
  /\ ~aborted
  /\ pc[t] = "ran"
  /\ IF db.error_msg = NoEngineError
       THEN /\ pc' = [pc EXCEPT ![t] = "checked"]
            /\ UNCHANGED <<holder, result, query, stale>>
       ELSE /\ holder' = NoThread
            /\ pc' = [pc EXCEPT ![t] = "idle"]
            /\ result' = [result EXCEPT ![t] =
                 [kind |-> "MdbSqlError", msg |-> cstr_to_string(db.error_msg)]]
            /\ query' = [query EXCEPT ![t] = NoQuery]
            /\ stale' = [stale EXCEPT ![t] = FALSE]
  /\ UNCHANGED <<db, mem, poisoned, names, got, exhausted, row, yielded,
                 lastGet, aborted>>
  /\ UNCHANGED <<ex, conn, dest>>

\* check_error: an empty error slot passes the guard on; otherwise the
\* message is copied, the engine is reset and the guard is dropped.
CheckError(t) ==
  /\ ~aborted
  /\ pc[t] = "ran"
  /\ IF db.error_msg = NoEngineError
       THEN /\ pc' = [pc EXCEPT ![t] = "checked"]
            /\ UNCHANGED <<db, mem, holder, result, query, stale>>
       ELSE LET e == mdb_sql_reset(db, mem)
            IN /\ db' = e.db
               /\ mem' = e.mem
               /\ holder' = NoThread
               /\ pc' = [pc EXCEPT ![t] = "idle"]
               /\ result' = [result EXCEPT ![t] =
                    [kind |-> "MdbSqlError", msg |-> cstr_to_string(db.error_msg)]]
               /\ query' = [query EXCEPT ![t] = NoQuery]
               /\ stale' = [stale EXCEPT ![t] = FALSE]
  /\ UNCHANGED <<poisoned, names, got, exhausted, row, yielded, lastGet, aborted>>
  /\ UNCHANGED <<ex, conn, dest>>

\* Rows::from: the column names are copied out of the session's column list.
RowsFrom(t) ==
  /\ ~aborted
  /\ pc[t] = "checked"
  /\ names' = [names EXCEPT ![t] =
       [i \in 1..Len(db.columns) |-> cstr_to_string(db.columns[i])]]
  /\ got' = [got EXCEPT ![t] = <<>>]
  /\ exhausted' = [exhausted EXCEPT ![t] = FALSE]
  /\ pc' = [pc EXCEPT ![t] = "cursor"]
  /\ result' = [result EXCEPT ![t] = [kind |-> "Rows", msg |-> <<>>]]
  /\ UNCHANGED <<stale, db, mem, holder, poisoned, query, row, yielded,
                 lastGet, aborted>>
  /\ UNCHANGED <<ex, conn, dest>>

\* The values of a Row decoded at once, as the tests do in their closure
\* `|r| r.get(i).unwrap()`: the buffers are live, so each read has one outcome.
DecodeRow(values, m) ==
  [i \in 1..Len(values) |->
     CHOOSE r \in RowGetOutcomes(values, i - 1, m) : TRUE]

\* A faulty variant: a Rows whose names are read from the session's column list on
\* every use instead of being copied at creation.
RowsNextLazyNames(t, keep) ==
  /\ ~aborted
  /\ pc[t] = "cursor"
  /\ ~exhausted[t]
  /\ IF HasRow(db)
       THEN LET e == mdb_sql_fetch_row(db, mem)
                vs == SubSeq(e.db.bound_values, 1, Len(e.db.columns))
            IN /\ db' = e.db
               /\ mem' = e.mem
               /\ row' = [row EXCEPT ![t] = IF keep THEN vs ELSE @]
               /\ yielded' = [yielded EXCEPT ![t] =
                    IF keep THEN DecodeRow(vs, e.mem) ELSE @]
               /\ got' = [got EXCEPT ![t] = Append(@, DecodeRow(vs, e.mem))]
               /\ UNCHANGED exhausted
       ELSE LET e == mdb_sql_reset(db, mem)
            IN /\ db' = e.db
               /\ mem' = e.mem
               /\ exhausted' = [exhausted EXCEPT ![t] = TRUE]
               /\ UNCHANGED <<row, yielded, got>>
  /\ names' = [names EXCEPT ![t] = db'.columns]
  /\ UNCHANGED <<stale, holder, poisoned, pc, query, result, lastGet, aborted>>
  /\ UNCHANGED <<ex, conn, dest>>

\* A faulty variant: a Rows that gives the guard back when it sees the end
\* of the rows.
RowsNextUnlocksAtEnd(t, keep) ==
  /\ ~aborted
  /\ pc[t] = "cursor"
  /\ ~exhausted[t]
  /\ IF HasRow(db)
       THEN LET e == mdb_sql_fetch_row(db, mem)
                vs == SubSeq(e.db.bound_values, 1, Len(e.db.columns))
            IN /\ db' = e.db
               /\ mem' = e.mem
               /\ row' = [row EXCEPT ![t] = IF keep THEN vs ELSE @]
               /\ yielded' = [yielded EXCEPT ![t] =
                    IF keep THEN DecodeRow(vs, e.mem) ELSE @]
               /\ got' = [got EXCEPT ![t] = Append(@, DecodeRow(vs, e.mem))]
               /\ UNCHANGED <<exhausted, holder>>
       ELSE LET e == mdb_sql_reset(db, mem)
            IN /\ db' = e.db
               /\ mem' = e.mem
               /\ exhausted' = [exhausted EXCEPT ![t] = TRUE]
               /\ holder' = NoThread
               /\ UNCHANGED <<row, yielded, got>>
  /\ UNCHANGED <<stale, poisoned, pc, query, result, names, lastGet, aborted>>
  /\ UNCHANGED <<ex, conn, dest>>

\* Rows::next: one fetch; a fetched row is handed out as the pointers of the
\* first num_columns bound values, the end of the result resets the engine.
\* The caller decodes the Row at once and then keeps it or lets it go.
RowsNext(t, keep) ==
  /\ ~aborted
  /\ pc[t] = "cursor"
  /\ ~exhausted[t]
  /\ IF HasRow(db)
       THEN LET e == mdb_sql_fetch_row(db, mem)
                vs == SubSeq(e.db.bound_values, 1, Len(e.db.columns))
            IN /\ db' = e.db
               /\ mem' = e.mem
               /\ row' = [row EXCEPT ![t] = IF keep THEN vs ELSE @]
               /\ yielded' = [yielded EXCEPT ![t] =
                    IF keep THEN DecodeRow(vs, e.mem) ELSE @]
               /\ got' = [got EXCEPT ![t] = Append(@, DecodeRow(vs, e.mem))]
               /\ UNCHANGED exhausted
       ELSE LET e == mdb_sql_reset(db, mem)
            IN /\ db' = e.db
               /\ mem' = e.mem
               /\ exhausted' = [exhausted EXCEPT ![t] = TRUE]
               /\ UNCHANGED <<row, yielded, got>>
  /\ UNCHANGED <<stale, holder, poisoned, pc, query, result, names, lastGet, aborted>>
  /\ UNCHANGED <<ex, conn, dest>>

\* Rows::next on a Rows that has returned None: the session was reset, its
\* cur_table is null, and the same fetch is issued on the null table.  The
\* engine reads the table it is given without a test, so the call is
\* undefined: it faults, or the read goes unnoticed, the fetch reports no row
\* and the engine is reset once more.
RowsNextAfterEnd(t, fault) ==
  /\ ~aborted
  /\ pc[t] = "cursor"
  /\ exhausted[t]
  /\ db.cur_table = <<>>
  /\ LET e == mdb_sql_reset(db, mem)
     IN /\ db' = IF fault THEN db ELSE e.db
        /\ mem' = IF fault THEN mem ELSE e.mem
  /\ aborted' = fault
  /\ UNCHANGED <<stale, holder, poisoned, pc, query, result, names, got,
                 exhausted, row, yielded, lastGet>>
  /\ UNCHANGED <<ex, conn, dest>>

\* The Rows goes out of scope: its MutexGuard unlocks the Mutex.  Rows has no
\* Drop of its own, so the engine is left as it is.
DropRows(t) ==
  /\ ~aborted
  /\ pc[t] = "cursor"
  /\ exhausted[t] \/ Len(db.columns) + MaxQueryCols <= MaxCols
  /\ holder' = NoThread
  /\ pc' = [pc EXCEPT ![t] = "idle"]
  /\ names' = [names EXCEPT ![t] = <<>>]
  /\ got' = [got EXCEPT ![t] = <<>>]
  /\ exhausted' = [exhausted EXCEPT ![t] = FALSE]
  /\ query' = [query EXCEPT ![t] = NoQuery]
  /\ stale' = [stale EXCEPT ![t] = FALSE]
  /\ result' = [result EXCEPT ![t] = NoResult]
  /\ UNCHANGED <<db, mem, poisoned, row, yielded, lastGet, aborted>>
  /\ UNCHANGED <<ex, conn, dest>>

\* What a panic of thread t does: unwinding drops its Rows, if it has one,
\* and a guard dropped while panicking poisons the Mutex.
Unwind(t) ==
  /\ pc' = [pc EXCEPT ![t] = "panicked"]
  /\ holder' = IF holder = t THEN NoThread ELSE holder
  /\ poisoned' = (poisoned \/ holder = t)
  /\ names' = [names EXCEPT ![t] = <<>>]
  /\ got' = [got EXCEPT ![t] = <<>>]
  /\ exhausted' = [exhausted EXCEPT ![t] = FALSE]
  /\ row' = [row EXCEPT ![t] = NoRow]
  /\ yielded' = [yielded EXCEPT ![t] = <<>>]
  /\ query' = [query EXCEPT ![t] = NoQuery]
  /\ stale' = [stale EXCEPT ![t] = FALSE]
  /\ result' = [result EXCEPT ![t] = NoResult]

\* The caller's code panics while it holds a live Rows.
Panic(t) ==
  /\ ~aborted
  /\ pc[t] = "cursor"
  /\ Unwind(t)
  /\ UNCHANGED <<db, mem, lastGet, aborted>>
  /\ UNCHANGED <<ex, conn, dest>>

\* A thread calls prepare while its own Rows is alive: it reaches
\* self.db.lock() owning the guard.  Mutex::lock in the thread that holds the
\* lock never returns: it blocks for good or it panics, and the panic drops
\* the Rows and poisons the Mutex.
PrepareAgain(t, panics) ==
  /\ ~aborted
  /\ pc[t] = "cursor"
  /\ holder = t
  /\ IF panics
       THEN Unwind(t)
       ELSE /\ pc' = [pc EXCEPT ![t] = "relock"]
            /\ UNCHANGED <<holder, poisoned, names, got, exhausted, row,
                           yielded, query, stale, result>>
  /\ UNCHANGED <<db, mem, lastGet, aborted>>
  /\ UNCHANGED <<ex, conn, dest>>

\* Row::get(idx) on the Row the thread holds, at any later time.  The record
\* keeps the call (index, length of the Row, what the Row decoded to when it
\* was yielded) next to what the call returned.
RowGet(t, idx) ==
  /\ ~aborted
  /\ pc[t] \in {"idle", "cursor"}
  /\ row[t] # NoRow
  /\ \E o \in RowGetOutcomes(row[t], idx, mem) :
       /\ lastGet' = [thread |-> t, idx |-> idx, len |-> Len(row[t]),
                      kind |-> o.kind, val |-> o.val,
                      orig |-> IF idx < Len(row[t])
                                 THEN yielded[t][idx + 1]
                                 ELSE [kind |-> "None", val |-> 0]]
       /\ aborted' = (o.kind = "Segv")
       /\ IF o.kind = "Panic"
            THEN Unwind(t)
            ELSE UNCHANGED <<pc, holder, poisoned, names, got, exhausted,
                             row, yielded, query, stale, result>>
  /\ UNCHANGED <<db, mem>>
  /\ UNCHANGED <<ex, conn, dest>>

clientVars ==
  <<db, mem, holder, poisoned, pc, query, result, stale, names, got, exhausted,
    row, yielded, lastGet, aborted, conn>>

cursorVars == <<clientVars, dest>>

\* Mdb::schema(table_name): the engine prints the DDL of the table whose
\* name it reads at the pointer into a memory stream; the text is returned.
\* The stream's buffer is not freed: g_free is called on the null namespace.
Schema(name, tail) ==
  /\ ex.pc = "idle"
  /\ ex' = [ex EXCEPT !.ddl = [kind |-> "Ok", text |-> PrintSchema(name \o tail)],
                      !.heap = {StreamBuf}]
  /\ UNCHANGED cursorVars

\* An export that allocates its first bind buffer before it looks the table
\* up.
ExportBeginBindFirst(name, tail) ==
  /\ ex.pc = "idle"
  /\ LET seen == name \o tail
         first == <<[buf |-> <<>>, len |-> 0]>>
     IN IF seen \notin KnownTables
          THEN ex' = [NoExport EXCEPT
                        !.pc = "done", !.name = name, !.seen = seen,
                        !.ddl = ex.ddl, !.bound = first,
                        !.ret = [kind |-> "MdbSqlError", text |-> name]]
          ELSE ex' = [NoExport EXCEPT
                        !.pc = "bind", !.name = name, !.seen = seen,
                        !.ddl = ex.ddl, !.table = seen]
  /\ UNCHANGED cursorVars

\* A faulty variant: an export that looks the table up and rewinds it through
\* the session of the Connection, without its lock.
ExportBeginOnConnection(name, tail) ==
  /\ ex.pc = "idle"
  /\ LET seen == name \o tail
     IN IF seen \notin KnownTables
          THEN /\ ex' = [NoExport EXCEPT
                           !.pc = "done", !.name = name, !.seen = seen,
                           !.ddl = ex.ddl,
                           !.ret = [kind |-> "MdbSqlError", text |-> name]]
               /\ UNCHANGED cursorVars
          ELSE /\ ex' = [NoExport EXCEPT
                           !.pc = "bind", !.name = name, !.seen = seen,
                           !.ddl = ex.ddl, !.table = seen]
               /\ db' = [db EXCEPT !.cur_table = seen, !.pos = 0]
               /\ UNCHANGED <<mem, holder, poisoned, pc, query, result, stale,
                              names, got, exhausted, row, yielded, lastGet,
                              aborted, conn, dest>>

\* Mdb::export(table_name) up to read_table: the bind size is set and the
\* table is looked up under the name the engine reads at the pointer; an
\* unknown name returns MdbSqlError at once, a known table has its columns
\* read and is rewound.
ExportBegin(name, tail) ==
  /\ ex.pc = "idle"
  /\ LET seen == name \o tail
     IN IF seen \notin KnownTables
          THEN ex' = [NoExport EXCEPT
                        !.pc = "done", !.name = name, !.seen = seen,
                        !.ddl = ex.ddl,
                        !.ret = [kind |-> "MdbSqlError", text |-> name]]
          ELSE ex' = [NoExport EXCEPT
                        !.pc = "bind", !.name = name, !.seen = seen,
                        !.ddl = ex.ddl, !.table = seen]
  /\ UNCHANGED cursorVars

\* A faulty variant: a bind loop that passes over large-binary columns.
ExportBindSkipsOle ==
  /\ ex.pc = "bind"
  /\ ex.i <= Len(TableCols(ex.table))
  /\ ex' = IF ColType(ex.table, ex.i) = "MDB_OLE"
             THEN [ex EXCEPT !.i = @ + 1]
             ELSE [ex EXCEPT !.bound = Append(@, [buf |-> <<>>, len |-> 0]),
                             !.slot = 0,
                             !.i = @ + 1]
  /\ UNCHANGED cursorVars

\* One turn of the bind loop: a buffer of EXPORT_BIND_SIZE zero bytes and the
\* local bind_len = 0 are registered with the engine for column i, then the
\* buffer and a copy of bind_len are pushed to bound_values.
ExportBind ==
  /\ ex.pc = "bind"
  /\ ex.i <= Len(TableCols(ex.table))
  /\ ex' = [ex EXCEPT !.bound = Append(@, [buf |-> <<>>, len |-> 0]),
                      !.slot = 0,
                      !.i = @ + 1]
  /\ UNCHANGED cursorVars

\* After the loop: open_memstream.
ExportOpenStream ==
  /\ ex.pc = "bind"
  /\ ex.i > Len(TableCols(ex.table))
  /\ ex' = [ex EXCEPT !.stream = "open", !.pc = "rows",
                      !.heap = @ \cup {StreamBuf}]
  /\ UNCHANGED cursorVars

\* One turn of the row loop.  mdb_fetch_row writes each value into its bound
\* buffer and each length through the pointer registered for it, which is
\* the address of a local that is gone: the write is undefined, it goes
\* unnoticed or it damages the frame (fault).  Then the statement is written;
\* at a large-binary column the value is read in full into memory the engine
\* allocates, and the length is read through a null pointer (nr).
ExportRow(fault, nr) ==
  /\ ex.pc = "rows"
  /\ IF ex.pos < Len(TableRows(ex.table))
       THEN LET r == TableRows(ex.table)[ex.pos + 1]
                n == Len(TableCols(ex.table))
                filled == [i \in 1..n |-> [buf |-> r[i], len |-> ex.bound[i].len]]
                stmt == InsertStatement(ex.table, r, filled, nr.len)
                ole == FirstOle(ex.table)
            IN IF fault /\ n > 0
                 THEN ex' = [ex EXCEPT !.pc = "crashed", !.pos = @ + 1,
                                       !.bound = filled]
               ELSE IF ole # 0 /\ nr.fault
                 THEN ex' = [ex EXCEPT
                               !.pc = "crashed", !.pos = @ + 1,
                               !.bound = filled,
                               !.slot = IF n > 0 THEN Len(r[n]) ELSE @,
                               !.heap = @ \cup {OleValue},
                               !.out = Append(@,
                                 [stmt EXCEPT !.vals = SubSeq(@, 1, ole - 1),
                                              !.closed = FALSE])]
               ELSE ex' = [ex EXCEPT !.pos = @ + 1,
                                     !.bound = filled,
                                     !.slot = IF n > 0 THEN Len(r[n]) ELSE @,
                                     !.heap = IF ole # 0
                                                THEN @ \cup {OleValue}
                                                ELSE @,
                                     !.out = Append(@, stmt)]
       ELSE ex' = [ex EXCEPT !.pc = "close"]
  /\ UNCHANGED cursorVars

\* After the loop: fclose, the stream's text is copied into a String, the
\* stream's buffer is freed, bound_values is dropped, Ok is returned.  The
\* values mdb_ole_read_full returned are not freed.
ExportFinish ==
  /\ ex.pc = "close"
  /\ ex' = [ex EXCEPT !.pc = "done", !.stream = "closed", !.bound = <<>>,
                      !.heap = @ \ {StreamBuf},
                      !.ret = [kind |-> "Ok", text |-> ex.out]]
  /\ UNCHANGED cursorVars

\* The caller takes the result; the next call can start.
ExportReturn ==
  /\ ex.pc = "done"
  /\ ex' = NoExport
  /\ UNCHANGED cursorVars

\* The migration path: schema and export calls on one ffi::Mdb.
NextExport ==
  \/ \E name \in ExportNames, tail \in Tails : Schema(name, tail)
  \/ \E name \in ExportNames, tail \in Tails : ExportBegin(name, tail)
  \/ ExportBind
  \/ ExportOpenStream
  \/ \E fault \in BOOLEAN, nr \in NullReads : ExportRow(fault, nr)
  \/ ExportFinish
  \/ ExportReturn

SpecExport == Init /\ [][NextExport]_vars

\* A faulty variant: an open that creates the session before it has the
\* file's handle, and returns InvalidMdbFile with the session left behind.
OpenInitFirst(kind) ==
  /\ conn.state = "none"
  /\ conn' = IF IsFile(kind) /\ kind # "mdb"
               THEN [OpenResult(kind) EXCEPT !.inits = 1]
               ELSE OpenResult(kind)
  /\ UNCHANGED <<db, mem, holder, poisoned, pc, query, result, stale, names,
                 got, exhausted, row, yielded, lastGet, aborted, ex, dest>>

\* Connection::open(path).
Open(kind) ==
  /\ conn.state = "none"
  /\ conn' = OpenResult(kind)
  /\ UNCHANGED <<db, mem, holder, poisoned, pc, query, result, stale, names,
                 got, exhausted, row, yielded, lastGet, aborted, ex, dest>>

\* The Connection is dropped: Drop for Mdb calls mdb_sql_exit, which frees
\* the session with all it holds.  Rows<'a> and a running prepare borrow the
\* Connection, so it can go only when no thread is in either.
DropConnection ==
  /\ conn.state = "open"
  /\ \A t \in Threads : pc[t] \in {"idle", "panicked"}
  /\ conn' = [conn EXCEPT !.state = "dropped", !.exits = @ + 1]
  /\ db' = mdb_sql_reset(db, mem).db
  /\ mem' = mdb_sql_reset(db, mem).mem
  /\ UNCHANGED <<holder, poisoned, pc, query, result, stale, names, got,
                 exhausted, row, yielded, lastGet, aborted, ex, dest>>

\* ----------------------------------------------------------- open_mdb
\* mdb.table_names(): the user tables in catalogue order.
MigTables == <<Table1, TableEmpty, TableBlob>>

\* The table the loop of open_mdb is at: the first not yet exported.
CurTable ==
  LET left == {i \in 1..Len(MigTables) : MigTables[i] \notin dest.exported}
  IN MigTables[CHOOSE i \in left : \A j \in left : i <= j]

\* The value SQLite stores for a literal of the statement: a text literal
\* without its quotes, any other as written.
ReadLiteral(type, lit) ==
  IF type = "MDB_TEXT" /\ Len(lit) >= 2 /\ lit[1] = DQuote /\ lit[Len(lit)] = DQuote
    THEN SubSeq(lit, 2, Len(lit) - 1)
    ELSE lit

\* rusqlite's Connection::execute on a text of n statements: it prepares the
\* text, which compiles the first statement, and steps that one; built with
\* extra_check it returns MultipleStatement when more text follows.
ExecuteOutcomes(n) ==
  IF n <= 1 THEN {"first"} ELSE {"first", "MultipleStatement"}

\* open_mdb, lines 17-18: schema of the table, executed on the destination.
OpenMdbSchema(tail) ==
  /\ dest.ret = "None"
  /\ ex.pc = "idle"
  /\ CurTable \notin dest.schemas
  /\ LET ddl == PrintSchema(CurTable \o tail)
     IN /\ ex' = [ex EXCEPT !.ddl = [kind |-> "Ok", text |-> ddl]]
        /\ dest' = [dest EXCEPT
                      !.schemas = @ \cup {CurTable},
                      !.created = IF ddl.table = <<>> THEN @
                                  ELSE @ \cup {ddl.table}]
  /\ UNCHANGED clientVars

\* open_mdb, line 20: export of the table is called.
OpenMdbExport(tail) ==
  /\ dest.ret = "None"
  /\ CurTable \in dest.schemas
  /\ ExportBegin(CurTable, tail)

\* open_mdb, lines 20-21: the result of export is taken, an error returns
\* from open_mdb, a text is executed on the destination; after the last
\* table open_mdb returns the destination.
OpenMdbExecute(o) ==
  /\ dest.ret = "None"
  /\ ex.pc = "done"
  /\ ex' = [NoExport EXCEPT !.ddl = ex.ddl]
  /\ IF ex.ret.kind # "Ok"
       THEN dest' = [dest EXCEPT !.ret = ex.ret.kind]
     ELSE IF o = "MultipleStatement"
       THEN dest' = [dest EXCEPT !.ret = "MultipleStatement"]
     ELSE LET stmts == ex.ret.text
              done == dest.exported \cup {ex.name}
              ret == IF \A i \in 1..Len(MigTables) : MigTables[i] \in done
                       THEN "Ok" ELSE "None"
          IN IF stmts = <<>>
               THEN dest' = [dest EXCEPT !.exported = done, !.ret = ret]
             ELSE IF stmts[1].table \notin dest.created
               THEN dest' = [dest EXCEPT !.ret = "SqliteFailure"]
             ELSE dest' = [dest EXCEPT
                    !.exported = done, !.ret = ret,
                    !.rows[ex.table] = Append(@,
                       [i \in 1..Len(stmts[1].vals) |->
                          ReadLiteral(ColType(ex.table, i), stmts[1].vals[i])])]
  /\ UNCHANGED clientVars

NextOpenMdb ==
  \/ \E tail \in Tails : OpenMdbSchema(tail)
  \/ \E tail \in Tails : OpenMdbExport(tail)
  \/ dest.ret = "None" /\ ExportBind
  \/ dest.ret = "None" /\ ExportOpenStream
  \/ \E fault \in BOOLEAN, nr \in NullReads : dest.ret = "None" /\ ExportRow(fault, nr)
  \/ dest.ret = "None" /\ ExportFinish
  \/ \E o \in ExecuteOutcomes(Len(ex.ret.text)) : OpenMdbExecute(o)

SpecOpenMdb == Init /\ [][NextOpenMdb]_vars

\* A program that queries through a Connection while it migrates the file
\* with open_mdb: the migration has a session of its own.
NextMigrate ==
  \/ NextExport
  \/ \E q \in Queries : Prepare(1, q)
  \/ Lock(1)
  \/ RunQuery(1)
  \/ CheckError(1)
  \/ RowsFrom(1)
  \/ RowsNext(1, FALSE)
  \/ DropRows(1)

SpecMigrate == Init /\ [][NextMigrate]_vars

\* Threads sharing the Connection, each decoding its rows as it goes.
Next ==
  \E t \in Threads :
    \/ \E q \in Queries : Prepare(t, q)
    \/ Lock(t)
    \/ PoisonReturn(t)
    \/ RunQuery(t)
    \/ CheckError(t)
    \/ RowsFrom(t)
    \/ RowsNext(t, FALSE)
    \/ DropRows(t)
    \/ Panic(t)

Spec == Init /\ [][Next]_vars

\* Threads that may ask for a second Rows while they hold one.
NextNested ==
  \/ Next
  \/ \E t \in Threads, panics \in BOOLEAN : PrepareAgain(t, panics)

SpecNested == Init /\ [][NextNested]_vars

\* One caller that keeps Rows around and reads them later.
NextRow ==
  \/ \E q \in Queries : Prepare(1, q)
  \/ Lock(1)
  \/ RunQuery(1)
  \/ CheckError(1)
  \/ RowsFrom(1)
  \/ \E keep \in BOOLEAN : RowsNext(1, keep)
  \/ \E fault \in BOOLEAN : RowsNextAfterEnd(1, fault)
  \/ DropRows(1)
  \/ Panic(1)
  \/ \E idx \in Idx : RowGet(1, idx)

SpecRow == Init /\ [][NextRow]_vars

\* The life of a Connection: opened, used by the threads, dropped.
NextOpen ==
  \/ \E kind \in PathKinds : Open(kind)
  \/ conn.state = "open" /\ Next
  \/ DropConnection

SpecOpen == InitOpen /\ [][NextOpen]_vars

\* A step of the thread that owns the guard: the rest of its prepare, a
\* fetch through its Rows, or letting the Rows go.
GuardStep ==
  \E t \in Threads :
    \/ PoisonReturn(t)
    \/ RunQuery(t)
    \/ CheckError(t)
    \/ RowsFrom(t)
    \/ RowsNext(t, FALSE)
    \/ DropRows(t)

\* Fair scheduling: a thread waiting in lock() gets the Mutex if it is free
\* again and again, and the owner of the guard keeps running: it finishes
\* its prepare, goes on fetching and lets its Rows go in the end.
Fairness ==
  /\ WF_vars(GuardStep)
  /\ \A t \in Threads : SF_vars(Lock(t))

FairSpec == Spec /\ Fairness

\* ----------------------------------------------------------- properties
\* The thread owns the MutexGuard: it is between lock() returning and the
\* guard being dropped.
HoldsGuard(t) == pc[t] \in {"locked", "poisoned", "ran", "checked", "cursor"}

\* The thread is between the calls of prepare that touch the engine, or has
\* a Rows through which it fetches.
InEngine(t) == pc[t] \in {"locked", "ran", "checked", "cursor"}

ColIndex(tname, c) ==
  CHOOSE i \in 1..Len(TableCols(tname)) : TableCols(tname)[i] = c

\* What a query is to return: the rows of its table in table order, each
\* projected on the selected columns and decoded.
QueryResult(q) ==
  [i \in 1..Len(TableRows(q.table)) |->
     [j \in 1..Len(q.cols) |->
        column_result(TableRows(q.table)[i][ColIndex(q.table, q.cols[j])])]]

ValidQuery(q) ==
  /\ ~q.nul
  /\ q.table \in KnownTables
  /\ \A j \in 1..Len(q.cols) : q.cols[j] \in SeqRange(TableCols(q.table))

ErrorKinds == {"MutexPoisonError", "NulError", "MdbSqlError"}

\* C1: at most one Rows is alive, at most one thread is between engine calls
\* on the session, every such thread owns the guard, and no two threads hold
\* column names at the same time.
C1_MutualExclusion ==
  /\ Cardinality({t \in Threads : pc[t] = "cursor"}) <= 1
  /\ Cardinality({t \in Threads : InEngine(t)}) <= 1
  /\ \A t \in Threads : HoldsGuard(t) <=> holder = t
  /\ \A t, u \in Threads : names[t] # <<>> /\ names[u] # <<>> => t = u

C1_Witness ==
  \E t, u \in Threads :
    /\ t # u
    /\ pc[t] = "cursor" /\ names[t] # <<>> /\ Len(got[t]) = 1
    /\ pc[u] = "lock" /\ query[u] # query[t]

\* C2: every thread that holds a Rows sees the column names of its own query
\* and, row by row, the rows of its own query, however the other threads'
\* prepare calls interleave with it.
C2_OwnQueryOnly ==
  \A t \in Threads :
    pc[t] = "cursor" =>
      /\ names[t] = query[t].cols
      /\ Len(got[t]) <= Len(QueryResult(query[t]))
      /\ got[t] = SubSeq(QueryResult(query[t]), 1, Len(got[t]))
      /\ exhausted[t] => got[t] = QueryResult(query[t])

C5_PoisonedPrepareFails ==
  [][poisoned =>
       /\ poisoned'
       /\ db' = db
       /\ mem' = mem
       /\ \A t \in Threads :
            /\ ~InEngine(t) /\ ~InEngine(t)'
            /\ (pc[t] = "lock" /\ pc'[t] # "lock") => pc'[t] = "poisoned"
            /\ (pc[t] = "poisoned" /\ pc'[t] # "poisoned")
                 => (pc'[t] = "idle" /\ result'[t].kind = "MutexPoisonError")
    ]_vars

C5_Witness ==
  \E t, u \in Threads :
    /\ poisoned
    /\ pc[t] = "panicked"
    /\ pc[u] = "idle" /\ result[u].kind = "MutexPoisonError"

C7_GetChecksIndex ==
  lastGet.kind # "None" =>
    /\ lastGet.idx >= lastGet.len
         => (lastGet.kind = "InvalidRowIndex" /\ lastGet.val = lastGet.idx)
    /\ lastGet.idx < lastGet.len
         => lastGet.kind \notin {"InvalidRowIndex", "Panic"}

\* C8: what Row::get reads from a Row is what that Row held when it was
\* yielded, whatever has happened to the Rows and the session since.
C8_RowKeepsItsValues ==
  (lastGet.kind # "None" /\ lastGet.idx < lastGet.len) =>
    (lastGet.kind = lastGet.orig.kind /\ lastGet.val = lastGet.orig.val)

\* C9: for an existing table with N rows, export returns bulk-DML text of
\* exactly N INSERT statements, one per row in fetch order (none for N = 0).
C9_ExportOneInsertPerRow ==
  (ex.pc \in {"done", "crashed"} /\ ex.name \in KnownTables)
    => /\ ex.pc = "done"
       /\ ex.ret.kind = "Ok"
       /\ Len(ex.ret.text) = Len(TableRows(ex.name))
       /\ \A k \in 1..Len(ex.ret.text) :
            /\ ex.ret.text[k].closed
            /\ ex.ret.text[k].table = QuoteName(ex.name)
            /\ Len(ex.ret.text[k].vals) = Len(TableCols(ex.name))

\* C10: an export whose table lookup finds no table returns MdbSqlError, and
\* by then no bind buffer has been allocated, no column bound, no row fetched
\* and no output stream opened.
C10_UnknownTableFailsEarly ==
  [][(ex.pc = "idle" /\ ex'.pc # "idle" /\ ex'.seen \notin KnownTables)
       => /\ ex'.pc = "done"
          /\ ex'.ret.kind = "MdbSqlError"
          /\ ex'.ret.text = ex'.name
          /\ ex'.bound = <<>>
          /\ ex'.i = 1
          /\ ex'.pos = 0
          /\ ex'.stream = "none"
          /\ ex'.out = <<>>]_vars

C10_Witness ==
  /\ ex.pc = "done"
  /\ ex.name = NoTable
  /\ ex.seen \notin KnownTables
  /\ ex.ret.kind = "MdbSqlError"

\* An export call is between its read_table and its return.
ExportInFlight == ex.pc \in {"bind", "rows", "close"}

\* C11 as stated: every operation on an engine handle, the steps of export
\* among them, runs with the Connection's lock held.
C11_EveryEngineOpLocked ==
  /\ \A t \in Threads : InEngine(t) => holder = t
  /\ ExportInFlight => holder # NoThread

\* C11 amended: the calls under prepare and Rows hold the lock; schema and
\* export take no lock and run on the session the migration opened for
\* itself: their steps leave the Connection's session, buffers and lock
\* alone, schema runs only between two exports, and an export starts only
\* when none is in flight.
C11_ExportOwnsItsSession ==
  /\ [][ex' # ex =>
          /\ db' = db /\ mem' = mem /\ holder' = holder /\ poisoned' = poisoned
          /\ (ex'.ddl # ex.ddl /\ ex'.ddl.kind = "Ok")
               => (ex.pc = "idle" /\ ex'.pc = "idle")
          /\ (ex'.name # ex.name /\ ex'.pc # "idle") => ~ExportInFlight
       ]_vars
  /\ [](\A t \in Threads : InEngine(t) => holder = t)

C11_Witness ==
  /\ ex.pc = "rows"
  /\ Len(ex.out) = 1
  /\ ex.ddl.kind = "Ok"
  /\ holder = 1 /\ pc[1] = "cursor" /\ Len(got[1]) = 1

\* C12: open of a path that is no regular file returns InvalidPath without
\* an engine call, open of a file the engine does not take returns
\* InvalidMdbFile, and neither creates a session; a successful open creates
\* exactly one session, which mdb_sql_exit gets exactly once, when the
\* Connection is dropped, and never while a Rows or a guard is alive.
C12_OpenAndRelease ==
  /\ [](/\ (conn.state # "none" /\ ~IsFile(conn.path))
             => /\ conn.state = "failed" /\ conn.err = "InvalidPath"
                /\ conn.opens = 0 /\ conn.inits = 0 /\ conn.exits = 0
        /\ (conn.state # "none" /\ IsFile(conn.path) /\ conn.path # "mdb")
             => /\ conn.state = "failed" /\ conn.err = "InvalidMdbFile"
                /\ conn.opens = 1 /\ conn.inits = 0 /\ conn.exits = 0
        /\ (conn.state # "none" /\ conn.path = "mdb")
             => /\ conn.state \in {"open", "dropped"} /\ conn.err = "None"
                /\ conn.opens = 1 /\ conn.inits = 1
                /\ conn.exits = (IF conn.state = "dropped" THEN 1 ELSE 0)
        /\ conn.state # "open"
             => \A t \in Threads : pc[t] \in {"idle", "panicked"})
  /\ [][conn'.exits # conn.exits
          => /\ conn.state = "open" /\ conn'.state = "dropped"
             /\ holder = NoThread
             /\ \A t \in Threads : pc[t] # "cursor" /\ ~HoldsGuard(t)
             /\ IsReset(db')]_vars

C12_Witness ==
  /\ conn.state = "dropped"
  /\ conn.exits = 1 /\ conn.inits = 1
  /\ poisoned
  /\ \E t \in Threads : pc[t] = "panicked"
  /\ \E t \in Threads : pc[t] = "idle" /\ result[t].kind = "MutexPoisonError"

\* C13: when open_mdb is over, it has returned the destination, and every
\* table of the source is there with as many rows as in the source and, in
\* every column that is not large-binary, the same value in each row.
C13_RoundTrip ==
  (dest.ret # "None" \/ ex.pc = "crashed") =>
    /\ dest.ret = "Ok"
    /\ \A tb \in KnownTables :
         /\ Len(dest.rows[tb]) = Len(TableRows(tb))
         /\ \A k \in 1..Len(dest.rows[tb]) :
              /\ Len(dest.rows[tb][k]) = Len(TableCols(tb))
              /\ \A i \in 1..Len(TableCols(tb)) :
                   ColType(tb, i) # "MDB_OLE"
                     => Trim(dest.rows[tb][k][i]) = Trim(TableRows(tb)[k][i])

\* C14: when prepare returns an error (MutexPoisonError, NulError,
\* MdbSqlError) the thread has no Rows and does not own the guard, and a
\* prepare that returns NulError has left the session and its buffers as
\* they were.
C14_FailedPrepareHoldsNothing ==
  /\ [](\A t \in Threads :
          (pc[t] = "idle" /\ result[t].kind \in ErrorKinds)
            => /\ holder # t
               /\ names[t] = <<>> /\ got[t] = <<>> /\ ~exhausted[t])
  /\ [][\A t \in Threads :
          (pc[t] # "idle" /\ pc'[t] = "idle" /\ result'[t].kind \in ErrorKinds)
            => /\ holder' = NoThread
               /\ result'[t].kind = "MutexPoisonError" => pc[t] = "poisoned"
               /\ result'[t].kind = "MdbSqlError" => pc[t] = "ran"
               /\ result'[t].kind = "NulError"
                    => (pc[t] = "locked" /\ db' = db /\ mem' = mem)]_vars

C14_Witness ==
  \E t, u \in Threads :
    /\ t # u
    /\ pc[t] = "idle" /\ result[t].kind = "NulError"
    /\ pc[u] = "cursor" /\ holder = u /\ Len(got[u]) = 1

\* C15: from the step in which lock() hands a thread the guard to the step
\* in which its Rows is dropped the thread owns the guard; the step that
\* reaches exhaustion resets the session and keeps the guard; dropping the
\* Rows frees the Mutex, after exhaustion and before it.
C15_LockHeldUntilDrop ==
  [][\A t \in Threads :
       /\ (pc[t] = "lock" /\ pc'[t] = "locked") => holder' = t
       /\ (pc[t] \in {"locked", "ran", "checked", "cursor"}
             /\ pc'[t] \in {"ran", "checked", "cursor"})
            => (holder = t /\ holder' = t)
       /\ (pc[t] = "cursor" /\ ~exhausted[t] /\ exhausted'[t])
            => (IsReset(db') /\ holder' = t /\ pc'[t] = "cursor")
       /\ (pc[t] = "cursor" /\ pc'[t] = "idle")
            => (holder = t /\ holder' = NoThread)
       /\ (holder = t /\ holder' # t) => pc'[t] \in {"idle", "panicked"}
    ]_vars

C15_Witness ==
  \E t, u \in Threads :
    /\ t # u
    /\ pc[t] = "cursor" /\ exhausted[t] /\ holder = t
    /\ stale[t]
    /\ pc[u] = "lock"

C17_ValuesAndLengths ==
  \A k \in 1..Len(ex.out) :
    LET r == TableRows(ex.table)[k]
    IN \A i \in 1..Len(TableCols(ex.table)) :
         /\ i <= Len(ex.out[k].vals)
         /\ ex.out[k].vals[i] = PrintCol(ColType(ex.table, i), r[i], Len(r[i]))

\* C18: in every statement export has written, each column name is the
\* column's name quoted for the destination and then normalised, as the
\* table name is.
C18_ColumnNamesQuoted ==
  \A k \in 1..Len(ex.out) :
    /\ ex.out[k].table = QuoteName(ex.table)
    /\ \A i \in 1..Len(ex.out[k].cols) :
         ex.out[k].cols[i] = QuoteName(TableCols(ex.table)[i])

\* C19: every statement of the text export returns for a table of k columns
\* is a closed INSERT with the table's name, the k column names in column
\* order and k literals, the i-th literal being the printed value of the
\* i-th column of the row the statement is for.
C19_StatementShape ==
  ex.ret.kind = "Ok" =>
    \A k \in 1..Len(ex.ret.text) :
      LET st == ex.ret.text[k]
          r == TableRows(ex.table)[k]
          n == Len(TableCols(ex.table))
      IN /\ st.closed
         /\ st.table = QuoteName(ex.table)
         /\ Len(st.cols) = n
         /\ Len(st.vals) = n
         /\ \A i \in 1..n :
              /\ st.cols[i] \in {Normalise(TableCols(ex.table)[i]),
                                 QuoteName(TableCols(ex.table)[i])}
              /\ st.vals[i] = PrintCol(ColType(ex.table, i), r[i], Len(r[i]))

\* C20: when schema or export has returned, nothing the call allocated is
\* still outstanding: no bind buffer, no stream buffer, no large-binary
\* value.
C20_NothingOutstanding ==
  (ex.pc = "done" \/ (ex.pc = "idle" /\ ex.ddl.kind = "Ok"))
    => /\ ex.heap = {}
       /\ ex.bound = <<>>

\* C21: an advance of a Rows fetches one row or sees the end and resets the
\* engine; and an advance of a Rows that has seen the end returns, yields no
\* row and leaves the Rows at its end.
C21_SinglePass ==
  [][\A t \in Threads :
       (pc[t] = "cursor" /\ pc'[t] = "cursor" /\ row[t] = NoRow)
         => /\ (~exhausted[t] /\ (got'[t] # got[t] \/ exhausted'[t]))
                 => \/ /\ Len(got'[t]) = Len(got[t]) + 1
                       /\ db'.pos = db.pos + 1
                       /\ ~exhausted'[t]
                    \/ /\ got'[t] = got[t]
                       /\ exhausted'[t]
                       /\ IsReset(db')
            /\ exhausted[t]
                 => /\ ~aborted'
                    /\ exhausted'[t]
                    /\ got'[t] = got[t]
                    /\ IsReset(db')]_vars

\* The thread is inside Mutex::lock and has not come back from it.
BlockedInPrepare(t) == pc[t] \in {"lock", "relock"}

\* C22: whenever a thread is blocked in prepare, the Mutex is free or its
\* guard is owned by another thread that is not itself blocked in prepare,
\* so that a step of that thread leads to the guard being dropped.
C22_NoStuckPrepare ==
  \A t \in Threads :
    BlockedInPrepare(t) =>
      \/ holder = NoThread
      \/ holder # t /\ ~BlockedInPrepare(holder)

\* C23: after the fetch of a row, the length export passes to the formatter
\* for each column that is not large-binary is the length the engine wrote
\* for that column of that row.
C23_LengthIsTheEnginesCell ==
  (ex.pc \in {"rows", "close"} /\ ex.pos > 0) =>
    \A i \in 1..Len(TableCols(ex.table)) :
      ColType(ex.table, i) # "MDB_OLE" =>
        ex.bound[i].len = Len(TableRows(ex.table)[ex.pos][i])

\* C24: whenever the guard of a Rows is released, the query state of the
\* session is the state a reset leaves, whether the Rows was read to its end
\* or not.
C24_ReleasedMeansReset ==
  [][\A t \in Threads :
       (pc[t] = "cursor" /\ holder = t /\ holder' # t) => IsReset(db')]_vars

====
